---- MODULE Spec2Model ----
(***************************************************************************)
(* writecolor (src/src/lib.rs): terminal styles rendered as ANSI SGR       *)
(* escapes.  The model covers the Style value type and its two merge       *)
(* operators, StyleSpec folding, the environment test for colour, the      *)
(* renderer write_to, and the difference engine Difference::between with   *)
(* its caller write_difference.                                            *)
(*                                                                         *)
(* Every operation of the library is a function of its arguments and of    *)
(* two environment variables, so each specification below draws the        *)
(* arguments in its initial state and has one action per operation.        *)
(* Bytes are modelled as one-character strings; "ESC" stands for 0x1B.     *)
(***************************************************************************)
EXTENDS Integers, Sequences, FiniteSets, TLC

VARIABLES
    self,      \* the Style a method is called on (*self)
    self0,     \* the value *self had before the first call
    prev,      \* the `prev` argument of write_difference / Difference::between
    with,      \* the `with` argument of Add::add / AddAssign::add_assign
    specs,     \* the StyleSpec sequence handed to from_iter / extend
    idx,       \* number of elements of specs the extend loop has consumed
    TERM,      \* environment variable TERM   (None when unset)
    NO_COLOR,  \* environment variable NO_COLOR (None when unset)
    sink_ok,   \* whether the io::Write sink accepts writes
    w,         \* the bytes the sink holds
    ret,       \* the value the last call returned
    pc         \* "start", or the name of the call that has been made

vars == <<self, self0, prev, with, specs, idx, TERM, NO_COLOR, sink_ok, w, ret, pc>>

(***************************************************************************)
(* Bounds of the model.                                                    *)
(***************************************************************************)
\* Most flags set, counted over both styles, in the two-style specifications.
MaxFlagsOn == 3
\* Most flags set, counted over both styles, in the environment specification.
MaxEnvFlagsOn == 1
\* Longest StyleSpec sequence folded.
MaxSpecs == 4
\* Most styles written one after the other in a session.
MaxSteps == 3

(***************************************************************************)
(* Option<T>, Color, Style                                                 *)
(***************************************************************************)
None == [tag |-> "None"]

Named == {"Black", "Red", "Green", "Yellow", "Blue", "Magenta", "Cyan", "White"}

NamedColor(name) == [tag |-> name]
Fixed(n) == [tag |-> "Fixed", n |-> n]
Rgb(r, g, b) == [tag |-> "Rgb", r |-> r, g |-> g, b |-> b]

\* Sample values of the u8 payloads: one, two and three decimal digits.
FixedSamples == {0, 9, 184, 255}
RgbSamples == {<<254, 253, 255>>, <<0, 10, 100>>}

AllColors ==
    {NamedColor(c) : c \in Named}
        \cup {Fixed(n) : n \in FixedSamples}
        \cup {Rgb(t[1], t[2], t[3]) : t \in RgbSamples}

\* The colours of the two-style specifications.
PairColors == {NamedColor("Red"), Fixed(184)}

Flags ==
    {"bold", "dimmed", "italic", "underline", "blink", "reverse", "hidden",
     "strikethrough", "intense"}

MkStyle(fg, bg, on) ==
    [fg            |-> fg,
     bg            |-> bg,
     bold          |-> "bold" \in on,
     dimmed        |-> "dimmed" \in on,
     italic        |-> "italic" \in on,
     underline     |-> "underline" \in on,
     blink         |-> "blink" \in on,
     reverse       |-> "reverse" \in on,
     hidden        |-> "hidden" \in on,
     strikethrough |-> "strikethrough" \in on,
     intense       |-> "intense" \in on]

\* Style::default(): #[derive(Default)]
Default == MkStyle(None, None, {})

\* Style's #[derive(PartialEq)]: field by field.
StyleEq(a, b) ==
    /\ a.fg = b.fg
    /\ a.bg = b.bg
    /\ a.bold = b.bold
    /\ a.dimmed = b.dimmed
    /\ a.italic = b.italic
    /\ a.underline = b.underline
    /\ a.blink = b.blink
    /\ a.reverse = b.reverse
    /\ a.hidden = b.hidden
    /\ a.strikethrough = b.strikethrough
    /\ a.intense = b.intense

\* The Style values with colours from `colors` and at most maxOn flags set.
StylesWith(colors, maxOn) ==
    {MkStyle(fg, bg, on) :
        fg \in colors \cup {None},
        bg \in colors \cup {None},
        on \in {S \in SUBSET Flags : Cardinality(S) <= maxOn}}

\* Option::or
Or(a, b) == IF a # None THEN a ELSE b

Some(v) == [tag |-> "Some", v |-> v]

(***************************************************************************)
(* Merging: impl Add for Style, impl AddAssign for Style                   *)
(***************************************************************************)
\* Faulty variant: the colours of `with` replace those of self even when unset.
Merged_ColorsReplaced(s, wth) ==
    [fg            |-> wth.fg,
     bg            |-> wth.bg,
     bold          |-> wth.bold \/ s.bold,
     dimmed        |-> wth.dimmed \/ s.dimmed,
     italic        |-> wth.italic \/ s.italic,
     underline     |-> wth.underline \/ s.underline,
     blink         |-> wth.blink \/ s.blink,
     reverse       |-> wth.reverse \/ s.reverse,
     hidden        |-> wth.hidden \/ s.hidden,
     strikethrough |-> wth.strikethrough \/ s.strikethrough,
     intense       |-> wth.intense \/ s.intense]

\* The struct expression both operators build.
Merged(s, wth) ==
    [fg            |-> Or(wth.fg, s.fg),
     bg            |-> Or(wth.bg, s.bg),
     bold          |-> wth.bold \/ s.bold,
     dimmed        |-> wth.dimmed \/ s.dimmed,
     italic        |-> wth.italic \/ s.italic,
     underline     |-> wth.underline \/ s.underline,
     blink         |-> wth.blink \/ s.blink,
     reverse       |-> wth.reverse \/ s.reverse,
     hidden        |-> wth.hidden \/ s.hidden,
     strikethrough |-> wth.strikethrough \/ s.strikethrough,
     intense       |-> wth.intense \/ s.intense]

\* fn add(self, with: Self) -> Self
add(s, wth) == Merged(s, wth)

\* fn add_assign(&mut self, with: Self): the value left in *self
add_assign(s, wth) ==
    IF StyleEq(wth, Default) THEN Default ELSE Merged(s, wth)

(***************************************************************************)
(* StyleSpec and folding                                                   *)
(***************************************************************************)
Reset == [tag |-> "Reset"]
Bold == [tag |-> "Bold"]
Underline == [tag |-> "Underline"]
Italic == [tag |-> "Italic"]
Intense == [tag |-> "Intense"]
Fg(c) == [tag |-> "Fg", color |-> c]
Bg(c) == [tag |-> "Bg", color |-> c]
Number(n) == [tag |-> "Number", n |-> n]

\* The StyleSpec values folded by SpecFold.
FoldSpecs ==
    {Reset, Bold, Underline, Italic, Intense, Number(1),
     Fg(NamedColor("Red")), Fg(Fixed(184)), Bg(NamedColor("Blue"))}

\* Faulty variant: Reset falls into the catch-all arm.
add_spec_ResetIgnored(s, style) ==
    CASE style.tag = "Fg" -> [s EXCEPT !.fg = style.color]
      [] style.tag = "Bg" -> [s EXCEPT !.bg = style.color]
      [] style.tag = "Bold" -> [s EXCEPT !.bold = TRUE]
      [] style.tag = "Italic" -> [s EXCEPT !.italic = TRUE]
      [] style.tag = "Intense" -> [s EXCEPT !.intense = TRUE]
      [] style.tag = "Underline" -> [s EXCEPT !.underline = TRUE]
      [] OTHER -> s

\* pub fn add_spec(&mut self, style: StyleSpec): the value left in *self
add_spec(s, style) ==
    CASE style.tag = "Fg" -> [s EXCEPT !.fg = style.color]
      [] style.tag = "Bg" -> [s EXCEPT !.bg = style.color]
      [] style.tag = "Bold" -> [s EXCEPT !.bold = TRUE]
      [] style.tag = "Italic" -> [s EXCEPT !.italic = TRUE]
      [] style.tag = "Intense" -> [s EXCEPT !.intense = TRUE]
      [] style.tag = "Underline" -> [s EXCEPT !.underline = TRUE]
      [] style.tag = "Reset" -> Default
      [] OTHER -> s

\* impl Extend<&StyleSpec> for Style: for style in styles { self.add_spec(*style) }
RECURSIVE extend(_, _)
extend(s, styles) ==
    IF styles = <<>> THEN s
    ELSE extend(add_spec(s, Head(styles)), Tail(styles))

\* impl FromIterator<&StyleSpec> for Style: the same loop over a fresh default
from_iter(iter) ==
    LET context == Default IN extend(context, iter)

(***************************************************************************)
(* fn env_allows_color() -> bool                                           *)
(***************************************************************************)
\* Faulty variant: TERM=dumb is not looked at.
env_allows_color_DumbAllowed(term, no_color) ==
    IF term = None THEN FALSE
    ELSE IF no_color # None THEN FALSE
    ELSE TRUE

env_allows_color(term, no_color) ==
    IF term = None THEN FALSE
    ELSE IF term.v = "dumb" THEN FALSE
    ELSE IF no_color # None THEN FALSE
    ELSE TRUE

(***************************************************************************)
(* Escape sequences                                                        *)
(***************************************************************************)
\* macro e!: concat!["\x1b[", $c, $(";", $cn,)* "m"]
RECURSIVE Params(_)
Params(cn) ==
    IF cn = <<>> THEN <<>> ELSE <<";">> \o Head(cn) \o Params(Tail(cn))

e(c, cn) == <<"ESC", "[">> \o c \o Params(cn) \o <<"m">>

\* e!() is e!("0")
e0 == e(<<"0">>, <<>>)

\* "{}" of a u8: its decimal digits, no padding.
DigitChar(d) == <<"0", "1", "2", "3", "4", "5", "6", "7", "8", "9">>[d + 1]

RECURSIVE Display(_)
Display(n) ==
    IF n < 10 THEN <<DigitChar(n)>>
    ELSE Display(n \div 10) \o <<DigitChar(n % 10)>>

\* e!(p, "5", "{}") with n, and e!(p, "2", "{};{};{}") with r, g, b
eFixed(p, n) == e(p, <<<<"5">>, Display(n)>>)
eRgb(p, r, g, b) ==
    e(p, <<<<"2">>, Display(r) \o <<";">> \o Display(g) \o <<";">> \o Display(b)>>)

\* The foreground match of write_to, intense and not.
FgIntense(fg) ==
    CASE fg.tag = "Black" -> e(<<"3", "8">>, <<<<"5">>, <<"8">>>>)
      [] fg.tag = "Red" -> e(<<"3", "8">>, <<<<"5">>, <<"9">>>>)
      [] fg.tag = "Green" -> e(<<"3", "8">>, <<<<"5">>, <<"1", "0">>>>)
      [] fg.tag = "Yellow" -> e(<<"3", "8">>, <<<<"5">>, <<"1", "1">>>>)
      [] fg.tag = "Blue" -> e(<<"3", "8">>, <<<<"5">>, <<"1", "2">>>>)
      [] fg.tag = "Magenta" -> e(<<"3", "8">>, <<<<"5">>, <<"1", "3">>>>)
      [] fg.tag = "Cyan" -> e(<<"3", "8">>, <<<<"5">>, <<"1", "4">>>>)
      [] fg.tag = "White" -> e(<<"3", "8">>, <<<<"5">>, <<"1", "5">>>>)
      [] fg.tag = "Fixed" -> eFixed(<<"3", "8">>, fg.n)
      [] fg.tag = "Rgb" -> eRgb(<<"3", "8">>, fg.r, fg.g, fg.b)

FgNormal(fg) ==
    CASE fg.tag = "Black" -> e(<<"3", "0">>, <<>>)
      [] fg.tag = "Red" -> e(<<"3", "1">>, <<>>)
      [] fg.tag = "Green" -> e(<<"3", "2">>, <<>>)
      [] fg.tag = "Yellow" -> e(<<"3", "3">>, <<>>)
      [] fg.tag = "Blue" -> e(<<"3", "4">>, <<>>)
      [] fg.tag = "Magenta" -> e(<<"3", "5">>, <<>>)
      [] fg.tag = "Cyan" -> e(<<"3", "6">>, <<>>)
      [] fg.tag = "White" -> e(<<"3", "7">>, <<>>)
      [] fg.tag = "Fixed" -> eFixed(<<"3", "8">>, fg.n)
      [] fg.tag = "Rgb" -> eRgb(<<"3", "8">>, fg.r, fg.g, fg.b)

\* The background match of write_to, intense and not.
BgIntense(bg) ==
    CASE bg.tag = "Black" -> e(<<"4", "8">>, <<<<"5">>, <<"8">>>>)
      [] bg.tag = "Red" -> e(<<"4", "8">>, <<<<"5">>, <<"9">>>>)
      [] bg.tag = "Green" -> e(<<"4", "8">>, <<<<"5">>, <<"1", "0">>>>)
      [] bg.tag = "Yellow" -> e(<<"4", "8">>, <<<<"5">>, <<"1", "1">>>>)
      [] bg.tag = "Blue" -> e(<<"4", "8">>, <<<<"5">>, <<"1", "2">>>>)
      [] bg.tag = "Magenta" -> e(<<"4", "8">>, <<<<"5">>, <<"1", "3">>>>)
      [] bg.tag = "Cyan" -> e(<<"4", "8">>, <<<<"5">>, <<"1", "4">>>>)
      [] bg.tag = "White" -> e(<<"4", "8">>, <<<<"5">>, <<"1", "5">>>>)
      [] bg.tag = "Fixed" -> eFixed(<<"4", "8">>, bg.n)
      [] bg.tag = "Rgb" -> eRgb(<<"4", "8">>, bg.r, bg.g, bg.b)

BgNormal(bg) ==
    CASE bg.tag = "Black" -> e(<<"4", "0">>, <<>>)
      [] bg.tag = "Red" -> e(<<"4", "1">>, <<>>)
      [] bg.tag = "Green" -> e(<<"4", "2">>, <<>>)
      [] bg.tag = "Yellow" -> e(<<"4", "3">>, <<>>)
      [] bg.tag = "Blue" -> e(<<"4", "4">>, <<>>)
      [] bg.tag = "Magenta" -> e(<<"4", "5">>, <<>>)
      [] bg.tag = "Cyan" -> e(<<"4", "6">>, <<>>)
      [] bg.tag = "White" -> e(<<"4", "7">>, <<>>)
      [] bg.tag = "Fixed" -> eFixed(<<"4", "8">>, bg.n)
      [] bg.tag = "Rgb" -> eRgb(<<"4", "8">>, bg.r, bg.g, bg.b)

\* One `if cond { write!(w, frag)?; }`: the fragment queued for the sink.
If(cond, frag) == IF cond THEN <<frag>> ELSE <<>>

\* Faulty variant: the background is written before the foreground.
Fragments_BgFirst(s) ==
    IF ~StyleEq(s, Default) THEN
        If(s.bold, e(<<"1">>, <<>>))
            \o If(s.dimmed, e(<<"2">>, <<>>))
            \o If(s.italic, e(<<"3">>, <<>>))
            \o If(s.underline, e(<<"4">>, <<>>))
            \o If(s.blink, e(<<"5">>, <<>>))
            \o If(s.reverse, e(<<"7">>, <<>>))
            \o If(s.hidden, e(<<"8">>, <<>>))
            \o If(s.strikethrough, e(<<"9">>, <<>>))
            \o (IF s.bg # None
                THEN <<IF s.intense THEN BgIntense(s.bg) ELSE BgNormal(s.bg)>>
                ELSE <<>>)
            \o (IF s.fg # None
                THEN <<IF s.intense THEN FgIntense(s.fg) ELSE FgNormal(s.fg)>>
                ELSE <<>>)
    ELSE <<e0>>

\* The write! calls write_to makes once colour is allowed, in order.
Fragments(s) ==
    IF ~StyleEq(s, Default) THEN
        If(s.bold, e(<<"1">>, <<>>))
            \o If(s.dimmed, e(<<"2">>, <<>>))
            \o If(s.italic, e(<<"3">>, <<>>))
            \o If(s.underline, e(<<"4">>, <<>>))
            \o If(s.blink, e(<<"5">>, <<>>))
            \o If(s.reverse, e(<<"7">>, <<>>))
            \o If(s.hidden, e(<<"8">>, <<>>))
            \o If(s.strikethrough, e(<<"9">>, <<>>))
            \o (IF s.fg # None
                THEN <<IF s.intense THEN FgIntense(s.fg) ELSE FgNormal(s.fg)>>
                ELSE <<>>)
            \o (IF s.bg # None
                THEN <<IF s.intense THEN BgIntense(s.bg) ELSE BgNormal(s.bg)>>
                ELSE <<>>)
    ELSE <<e0>>

RECURSIVE Concat(_)
Concat(frags) ==
    IF frags = <<>> THEN <<>> ELSE Head(frags) \o Concat(Tail(frags))

\* The write! calls in order against a sink: each `?` returns the first
\* error.  A sink that is not ok rejects every write and keeps its bytes.
WriteAll(sink, ok, frags) ==
    IF frags = <<>> THEN [w |-> sink, res |-> "Ok"]
    ELSE IF ok THEN [w |-> sink \o Concat(frags), res |-> "Ok"]
    ELSE [w |-> sink, res |-> "Err"]

\* fn write_to(&self, w: &mut W) -> io::Result<()>
write_to(s, sink, ok, term, no_color) ==
    IF ~env_allows_color(term, no_color) THEN [w |-> sink, res |-> "Ok"]
    ELSE WriteAll(sink, ok, Fragments(s))

(***************************************************************************)
(* Difference                                                              *)
(***************************************************************************)
DiffNone == [kind |-> "None"]
DiffAdd(style) == [kind |-> "Add", style |-> style]
DiffReset == [kind |-> "Reset"]

\* Faulty variant: a changed colour counts as a downgrade.
NeedsReset_OnColorChange(p, n) ==
    \/ (p.fg # None /\ n.fg # p.fg)
    \/ (p.bg # None /\ n.bg # p.bg)
    \/ (p.bold /\ ~n.bold)
    \/ (p.italic /\ ~n.italic)
    \/ (p.underline /\ ~n.underline)
    \/ (p.intense /\ ~n.intense)

\* The downgrade test of Difference::between.
NeedsReset(p, n) ==
    \/ (p.fg # None /\ n.fg = None)
    \/ (p.bg # None /\ n.bg = None)
    \/ (p.bold /\ ~n.bold)
    \/ (p.italic /\ ~n.italic)
    \/ (p.underline /\ ~n.underline)
    \/ (p.intense /\ ~n.intense)

\* Faulty variant: the colours of next are carried whether or not they changed.
Delta_ColorsKept(p, n) ==
    [fg            |-> n.fg,
     bg            |-> n.bg,
     bold          |-> ~p.bold /\ n.bold,
     dimmed        |-> ~p.dimmed /\ n.dimmed,
     italic        |-> ~p.italic /\ n.italic,
     underline     |-> ~p.underline /\ n.underline,
     blink         |-> ~p.blink /\ n.blink,
     reverse       |-> ~p.reverse /\ n.reverse,
     hidden        |-> ~p.hidden /\ n.hidden,
     strikethrough |-> ~p.strikethrough /\ n.strikethrough,
     intense       |-> ~p.intense /\ n.intense]

\* The Style carried by Difference::Add.
Delta(p, n) ==
    [fg            |-> IF n.fg # p.fg THEN n.fg ELSE None,
     bg            |-> IF n.bg # p.bg THEN n.bg ELSE None,
     bold          |-> ~p.bold /\ n.bold,
     dimmed        |-> ~p.dimmed /\ n.dimmed,
     italic        |-> ~p.italic /\ n.italic,
     underline     |-> ~p.underline /\ n.underline,
     blink         |-> ~p.blink /\ n.blink,
     reverse       |-> ~p.reverse /\ n.reverse,
     hidden        |-> ~p.hidden /\ n.hidden,
     strikethrough |-> ~p.strikethrough /\ n.strikethrough,
     intense       |-> ~p.intense /\ n.intense]

\* Faulty variant: no early return for equal styles.
between_NoEarlyReturn(p, n) ==
    IF NeedsReset(p, n) THEN DiffReset ELSE DiffAdd(Delta(p, n))

\* pub fn between(prev: &Style, next: &Style) -> Self
between(p, n) ==
    IF StyleEq(p, n) THEN DiffNone
    ELSE IF NeedsReset(p, n) THEN DiffReset
    ELSE DiffAdd(Delta(p, n))

\* Faulty variant: the Reset arm renders self without the reset escape before it.
write_difference_NoReset(s, sink, ok, p, term, no_color) ==
    IF ~env_allows_color(term, no_color) THEN [w |-> sink, res |-> "Ok"]
    ELSE LET d == between(p, s) IN
         CASE d.kind = "Add" -> write_to(d.style, sink, ok, term, no_color)
           [] d.kind = "Reset" -> write_to(s, sink, ok, term, no_color)
           [] d.kind = "None" -> [w |-> sink, res |-> "Ok"]

\* fn write_difference(&self, w: &mut W, prev: &Style) -> io::Result<()>
write_difference(s, sink, ok, p, term, no_color) ==
    IF ~env_allows_color(term, no_color) THEN [w |-> sink, res |-> "Ok"]
    ELSE LET d == between(p, s) IN
         CASE d.kind = "Add" -> write_to(d.style, sink, ok, term, no_color)
           [] d.kind = "Reset" ->
                LET first == WriteAll(sink, ok, <<e0>>) IN
                IF first.res = "Err" THEN first
                ELSE write_to(s, first.w, ok, term, no_color)
           [] d.kind = "None" -> [w |-> sink, res |-> "Ok"]

(***************************************************************************)
(* The calls                                                               *)
(***************************************************************************)
Ok == [res |-> "Ok"]

\* Difference::between(&prev, &self)
Between ==
    /\ pc = "start"
    /\ ret' = between(prev, self)
    /\ pc' = "between"
    /\ UNCHANGED <<self, self0, prev, with, specs, idx, TERM, NO_COLOR, sink_ok, w>>

\* self.write_to(&mut w)
WriteTo ==
    /\ pc = "start"
    /\ LET r == write_to(self, w, sink_ok, TERM, NO_COLOR) IN
         /\ w' = r.w
         /\ ret' = [res |-> r.res]
    /\ pc' = "write_to"
    /\ UNCHANGED <<self, self0, prev, with, specs, idx, TERM, NO_COLOR, sink_ok>>

\* self.write_difference(&mut w, &prev)
WriteDifference ==
    /\ pc = "start"
    /\ LET r == write_difference(self, w, sink_ok, prev, TERM, NO_COLOR) IN
         /\ w' = r.w
         /\ ret' = [res |-> r.res]
    /\ pc' = "write_difference"
    /\ UNCHANGED <<self, self0, prev, with, specs, idx, TERM, NO_COLOR, sink_ok>>

\* self + with
Add ==
    /\ pc = "start"
    /\ ret' = add(self, with)
    /\ pc' = "add"
    /\ UNCHANGED <<self, self0, prev, with, specs, idx, TERM, NO_COLOR, sink_ok, w>>

\* self += with
AddAssign ==
    /\ pc = "start"
    /\ self' = add_assign(self, with)
    /\ pc' = "add_assign"
    /\ UNCHANGED <<self0, prev, with, specs, idx, TERM, NO_COLOR, sink_ok, w, ret>>

\* specs.iter().collect::<Style>()
FromIter ==
    /\ pc = "start"
    /\ ret' = from_iter(specs)
    /\ pc' = "from_iter"
    /\ UNCHANGED <<self, self0, prev, with, specs, idx, TERM, NO_COLOR, sink_ok, w>>

\* self.extend(&specs)
Extend ==
    /\ pc = "start"
    /\ self' = extend(self, specs)
    /\ idx' = Len(specs)
    /\ pc' = "extend"
    /\ UNCHANGED <<self0, prev, with, specs, TERM, NO_COLOR, sink_ok, w, ret>>

\* self.add_spec(specs[idx]), the caller applying the specs one call at a time
AddSpec ==
    /\ pc \in {"start", "add_spec"}
    /\ idx < Len(specs)
    /\ self' = add_spec(self, specs[idx + 1])
    /\ idx' = idx + 1
    /\ pc' = "add_spec"
    /\ UNCHANGED <<self0, prev, with, specs, TERM, NO_COLOR, sink_ok, w, ret>>

(***************************************************************************)
(* Specifications                                                          *)
(***************************************************************************)
FlagCount(s) == Cardinality({f \in Flags : s[f]})

\* The second style of a pair whose first is `first`.
PairStyles(first) == StylesWith(PairColors, MaxFlagsOn - FlagCount(first))
EnvColors == {NamedColor("Red")}
EnvStyles(first) == StylesWith(EnvColors, MaxEnvFlagsOn - FlagCount(first))
AllStyles == StylesWith(AllColors, Cardinality(Flags))

TermValues == {None, Some("dumb"), Some(""), Some("xterm-256color")}
NoColorValues == {None, Some(""), Some("1")}

RECURSIVE SeqsUpTo(_, _)
SeqsUpTo(S, n) ==
    IF n = 0 THEN {<<>>}
    ELSE LET shorter == SeqsUpTo(S, n - 1) IN
         shorter \cup {Append(q, x) : q \in {t \in shorter : Len(t) = n - 1}, x \in S}

\* What every specification starts from: colour allowed, an empty working sink.
Fresh ==
    /\ self0 = self
    /\ idx = 0
    /\ w = <<>>
    /\ ret = None
    /\ pc = "start"

\* Two styles, colour allowed: the difference engine and the renderer.
Init ==
    /\ prev \in StylesWith(PairColors, MaxFlagsOn)
    /\ self \in PairStyles(prev)
    /\ with = Default
    /\ specs = <<>>
    /\ TERM = Some("xterm-256color")
    /\ NO_COLOR = None
    /\ sink_ok = TRUE
    /\ Fresh

Next == Between \/ WriteDifference \/ WriteTo

Spec == Init /\ [][Next]_vars

\* Two styles merged.
InitMerge ==
    /\ self \in StylesWith(PairColors, MaxFlagsOn)
    /\ with \in PairStyles(self)
    /\ prev = Default
    /\ specs = <<>>
    /\ TERM = Some("xterm-256color")
    /\ NO_COLOR = None
    /\ sink_ok = TRUE
    /\ Fresh

NextMerge == Add \/ AddAssign

SpecMerge == InitMerge /\ [][NextMerge]_vars

\* One style of any shape rendered, colour allowed.
InitRender ==
    /\ self \in AllStyles
    /\ prev = Default
    /\ with = Default
    /\ specs = <<>>
    /\ TERM = Some("xterm-256color")
    /\ NO_COLOR = None
    /\ sink_ok = TRUE
    /\ Fresh

NextRender == WriteTo

SpecRender == InitRender /\ [][NextRender]_vars

\* Both writers under every environment and both kinds of sink.
InitEnv ==
    /\ prev \in StylesWith(EnvColors, MaxEnvFlagsOn)
    /\ self \in EnvStyles(prev)
    /\ with = Default
    /\ specs = <<>>
    /\ TERM \in TermValues
    /\ NO_COLOR \in NoColorValues
    /\ sink_ok \in BOOLEAN
    /\ Fresh

NextEnv == WriteTo \/ WriteDifference

SpecEnv == InitEnv /\ [][NextEnv]_vars

\* A StyleSpec sequence folded in one call, or one add_spec at a time.
InitFold ==
    /\ self \in {Default, MkStyle(NamedColor("Green"), None, {"bold", "dimmed"})}
    /\ specs \in SeqsUpTo(FoldSpecs, MaxSpecs)
    /\ prev = Default
    /\ with = Default
    /\ TERM = Some("xterm-256color")
    /\ NO_COLOR = None
    /\ sink_ok = TRUE
    /\ Fresh

NextFold == FromIter \/ Extend \/ AddSpec

SpecFold == InitFold /\ [][NextFold]_vars

\* The styles a session moves between: a flag whose loss between answers
\* with Reset, one whose loss it does not look at, intense, and colours.
SessionFlags == {"bold", "dimmed", "intense"}
SessionStyles ==
    {MkStyle(fg, bg, on) :
        fg \in {None, NamedColor("Red"), Fixed(184)},
        bg \in {None, NamedColor("Red")},
        on \in SUBSET SessionFlags}

\* next.write_difference(&mut w, &self): the caller writes the next style
\* against the one it wrote last, into the same sink, and remembers it.
WriteDifferenceNext ==
    /\ idx < MaxSteps
    /\ \E next \in SessionStyles :
        LET r == write_difference(next, w, sink_ok, self, TERM, NO_COLOR) IN
          /\ w' = r.w
          /\ ret' = [res |-> r.res]
          /\ prev' = self
          /\ self' = next
    /\ idx' = idx + 1
    /\ pc' = "write_difference"
    /\ UNCHANGED <<self0, with, specs, TERM, NO_COLOR, sink_ok>>

\* A session: S0 is the default style on an untouched sink, colour allowed.
InitSession ==
    /\ self = Default
    /\ prev = Default
    /\ with = Default
    /\ specs = <<>>
    /\ TERM = Some("xterm-256color")
    /\ NO_COLOR = None
    /\ sink_ok = TRUE
    /\ Fresh

NextSession == WriteDifferenceNext

SpecSession == InitSession /\ [][NextSession]_vars

(***************************************************************************)
(* Properties                                                              *)
(***************************************************************************)
\* Some attribute of p is absent from n: a colour p sets and n leaves unset,
\* or a flag true in p and false in n.
Lacks(p, n) ==
    \/ (p.fg # None /\ n.fg = None)
    \/ (p.bg # None /\ n.bg = None)
    \/ \E f \in Flags : p[f] /\ ~n[f]

\* n has every attribute p has.
Superset(p, n) ==
    /\ (p.fg # None => n.fg # None)
    /\ (p.bg # None => n.bg # None)
    /\ \A f \in Flags : p[f] => n[f]

\* C1: whenever next (self) lacks an attribute prev has, be it a colour or
\* any of the nine flags, Difference::between(prev, next) returns Reset.
C1_LackingAttributeResets ==
    (pc = "between" /\ Lacks(prev, self)) => ret = DiffReset

\* C2: with colour enabled, write_difference of the default style against a
\* non-default previous style writes exactly one reset escape, ESC [ 0 m.
C2_OneResetOnly ==
    (pc = "write_difference" /\ self = Default /\ prev # Default)
        => w = <<"ESC", "[", "0", "m">>

\* The attributes whose loss Difference::between answers with Reset.
ResetTracked(p) ==
    p.fg # None \/ p.bg # None \/ p.bold \/ p.italic \/ p.underline \/ p.intense

\* C2 (amended): with colour enabled, write_difference of the default style
\* against a non-default previous style writes reset escapes and nothing
\* else: two of them when prev sets fg, bg, bold, italic, underline or
\* intense, and one otherwise.
C2_ResetOnceOrTwice ==
    (pc = "write_difference" /\ self = Default /\ prev # Default)
        => /\ ret = Ok
           /\ w = IF ResetTracked(prev)
                  THEN <<"ESC", "[", "0", "m", "ESC", "[", "0", "m">>
                  ELSE <<"ESC", "[", "0", "m">>

C2_Witness ==
    /\ pc = "write_difference"
    /\ self = Default
    /\ prev = MkStyle(NamedColor("Red"), None, {})
    /\ w = <<"ESC", "[", "0", "m", "ESC", "[", "0", "m">>

\* C3: for + and for +=, merging with the default style on the right yields
\* the default style, and merging the default style on the left with S
\* yields S.
C3_MergeIdentity ==
    /\ pc = "add" =>
        /\ (with = Default => ret = Default)
        /\ (self = Default => ret = with)
    /\ pc = "add_assign" =>
        /\ (with = Default => self = Default)
        /\ (self0 = Default => self = with)

\* What C4 says the merge of a then b is.
MergeLaw(a, b, m) ==
    /\ m.fg = (IF b.fg # None THEN b.fg ELSE a.fg)
    /\ m.bg = (IF b.bg # None THEN b.bg ELSE a.bg)
    /\ \A f \in Flags : m[f] <=> (a[f] \/ b[f])
    /\ (a.fg # None => m.fg # None)
    /\ (a.bg # None => m.bg # None)
    /\ \A f \in Flags : a[f] => m[f]

\* C4: for every A and every non-default B, A + B and A += B take each
\* colour from B if B sets it and else from A, and each flag is the OR of
\* A's and B's; no colour is unset and no flag turned off.
C4_MergeOverridesAndAccumulates ==
    /\ (pc = "add" /\ with # Default) => MergeLaw(self, with, ret)
    /\ (pc = "add_assign" /\ with # Default) => MergeLaw(self0, with, self)

C4_Witness ==
    /\ pc = "add_assign"
    /\ self0 = MkStyle(NamedColor("Red"), Fixed(184), {"dimmed"})
    /\ with = MkStyle(None, NamedColor("Red"), {"bold", "blink"})
    /\ self = MkStyle(NamedColor("Red"), NamedColor("Red"), {"dimmed", "bold", "blink"})

\* The reference encoding of C5, from SGR numbers.
RefDigits(n) ==
    LET d(k) == <<"0", "1", "2", "3", "4", "5", "6", "7", "8", "9">>[k + 1] IN
    IF n >= 100 THEN <<d(n \div 100), d((n \div 10) % 10), d(n % 10)>>
    ELSE IF n >= 10 THEN <<d(n \div 10), d(n % 10)>>
    ELSE <<d(n)>>

RECURSIVE RefJoin(_)
RefJoin(codes) ==
    IF Len(codes) = 1 THEN RefDigits(codes[1])
    ELSE RefDigits(codes[1]) \o <<";">> \o RefJoin(Tail(codes))

SGR(codes) == <<"ESC", "[">> \o RefJoin(codes) \o <<"m">>

RefFlagOrder ==
    <<<<"bold", 1>>, <<"dimmed", 2>>, <<"italic", 3>>, <<"underline", 4>>,
      <<"blink", 5>>, <<"reverse", 7>>, <<"hidden", 8>>, <<"strikethrough", 9>>>>

RECURSIVE RefFlags(_, _)
RefFlags(s, k) ==
    IF k > Len(RefFlagOrder) THEN <<>>
    ELSE (IF s[RefFlagOrder[k][1]] THEN SGR(<<RefFlagOrder[k][2]>>) ELSE <<>>)
            \o RefFlags(s, k + 1)

RefNamedIndex(name) ==
    CASE name = "Black" -> 0 [] name = "Red" -> 1 [] name = "Green" -> 2
      [] name = "Yellow" -> 3 [] name = "Blue" -> 4 [] name = "Magenta" -> 5
      [] name = "Cyan" -> 6 [] name = "White" -> 7

\* base is 30 for the foreground and 40 for the background.
RefColor(c, base, intense) ==
    IF c = None THEN <<>>
    ELSE IF c.tag \in Named THEN
        IF intense THEN SGR(<<base + 8, 5, 8 + RefNamedIndex(c.tag)>>)
        ELSE SGR(<<base + RefNamedIndex(c.tag)>>)
    ELSE IF c.tag = "Fixed" THEN SGR(<<base + 8, 5, c.n>>)
    ELSE SGR(<<base + 8, 2, c.r, c.g, c.b>>)

RefBytes(s) ==
    IF s = Default THEN SGR(<<0>>)
    ELSE RefFlags(s, 1) \o RefColor(s.fg, 30, s.intense) \o RefColor(s.bg, 40, s.intense)

\* C5: with colour enabled, write_to writes ESC[0m for the default style and
\* otherwise the escapes of the true flags in the order bold(1), dim(2),
\* italic(3), underline(4), blink(5), reverse(7), hidden(8),
\* strikethrough(9), then the foreground, then the background, a named
\* colour as 30-37 / 40-47 or, when intense, 38;5;8..15 / 48;5;8..15, a
\* palette colour as 38;5;n / 48;5;n and an RGB colour as 38;2;r;g;b /
\* 48;2;r;g;b.
C5_WriteToMatchesReference ==
    pc = "write_to" => (ret = Ok /\ w = RefBytes(self))

C5_Witness ==
    /\ pc = "write_to"
    /\ self = MkStyle(NamedColor("Cyan"), Rgb(254, 253, 255),
                      {"bold", "reverse", "hidden", "strikethrough", "intense"})
    /\ w = <<"ESC", "[", "1", "m", "ESC", "[", "7", "m", "ESC", "[", "8", "m",
             "ESC", "[", "9", "m",
             "ESC", "[", "3", "8", ";", "5", ";", "1", "4", "m",
             "ESC", "[", "4", "8", ";", "2", ";", "2", "5", "4", ";",
             "2", "5", "3", ";", "2", "5", "5", "m">>

\* C6: when between(prev, next) returns Add(delta), delta's fg is next's fg
\* if it differs from prev's and unset otherwise, likewise bg, and each flag
\* of delta is true exactly when it is false in prev and true in next.
C6_AddCarriesOnlyChanges ==
    (pc = "between" /\ ret.kind = "Add") =>
        /\ ret.style.fg = (IF self.fg # prev.fg THEN self.fg ELSE None)
        /\ ret.style.bg = (IF self.bg # prev.bg THEN self.bg ELSE None)
        /\ \A f \in Flags : ret.style[f] <=> (~prev[f] /\ self[f])

C6_Witness ==
    /\ pc = "between"
    /\ prev = MkStyle(NamedColor("Red"), NamedColor("Red"), {"bold"})
    /\ self = MkStyle(NamedColor("Red"), Fixed(184), {"bold", "underline"})
    /\ ret = DiffAdd(MkStyle(None, Fixed(184), {"underline"}))

\* C7: when next has every attribute prev has, between(prev, next) does not
\* return Reset.
C7_SupersetNeverResets ==
    (pc = "between" /\ Superset(prev, self)) => ret # DiffReset

C7_Witness ==
    /\ pc = "between"
    /\ Superset(prev, self)
    /\ prev = MkStyle(NamedColor("Red"), None, {"intense"})
    /\ self = MkStyle(Fixed(184), NamedColor("Red"), {"intense", "hidden"})
    /\ ret.kind = "Add"

\* C8: between(S, S) is None and write_difference of S against S writes
\* nothing; between is None for no two styles that differ.
C8_NoneExactlyWhenEqual ==
    /\ pc = "between" => (ret = DiffNone <=> prev = self)
    /\ (pc = "write_difference" /\ prev = self) => (w = <<>> /\ ret = Ok)

C8_Witness ==
    /\ pc = "write_difference"
    /\ prev = self
    /\ self = MkStyle(NamedColor("Red"), None, {"blink"})
    /\ w = <<>>

\* The two conditions the colour decision combines.
CapabilityPresent == TERM # None /\ TERM # Some("dumb")
UserDisabled == NO_COLOR # None

\* C9: with TERM unset or "dumb", or with NO_COLOR set, write_to and
\* write_difference write no byte and return Ok whatever the styles and the
\* sink; colour is enabled exactly when the capability is present and the
\* user has not disabled it.
C9_DisabledWritesNothing ==
    /\ env_allows_color(TERM, NO_COLOR) <=> (CapabilityPresent /\ ~UserDisabled)
    /\ (pc \in {"write_to", "write_difference"} /\ ~(CapabilityPresent /\ ~UserDisabled))
          => (w = <<>> /\ ret = Ok)

C9_Witness ==
    /\ pc = "write_difference"
    /\ TERM = Some("xterm-256color")
    /\ NO_COLOR = Some("")
    /\ ~sink_ok
    /\ prev = MkStyle(NamedColor("Red"), None, {})
    /\ self = MkStyle(None, NamedColor("Red"), {"bold"})
    /\ w = <<>>
    /\ ret = Ok

\* The specs after the last Reset of seq (all of seq when it has none).
RECURSIVE AfterLastReset(_)
AfterLastReset(seq) ==
    IF \E k \in 1..Len(seq) : seq[k] = Reset THEN AfterLastReset(Tail(seq)) ELSE seq

\* The style a Reset-free sequence describes: the last Fg and the last Bg it
\* holds, and the flags it names.
Described(seq) ==
    LET has(tag) == \E k \in 1..Len(seq) : seq[k].tag = tag
        last(tag) ==
            IF has(tag)
            THEN seq[CHOOSE k \in 1..Len(seq) :
                        /\ seq[k].tag = tag
                        /\ \A j \in (k + 1)..Len(seq) : seq[j].tag # tag].color
            ELSE None
    IN  [fg            |-> last("Fg"),
         bg            |-> last("Bg"),
         bold          |-> has("Bold"),
         dimmed        |-> FALSE,
         italic        |-> has("Italic"),
         underline     |-> has("Underline"),
         blink         |-> FALSE,
         reverse       |-> FALSE,
         hidden        |-> FALSE,
         strikethrough |-> FALSE,
         intense       |-> has("Intense")]

\* C10: folding a StyleSpec sequence (from_iter, or extend from the default
\* style) gives what add_spec applied to each spec in order gives from the
\* default style, and that is the fold of the specs after the last Reset.
C10_FoldIsAddSpecInOrder ==
    /\ pc = "from_iter" =>
        /\ ret = Described(AfterLastReset(specs))
        /\ ret = from_iter(AfterLastReset(specs))
    /\ (pc = "extend" /\ self0 = Default) => self = Described(AfterLastReset(specs))
    /\ (pc = "add_spec" /\ idx = Len(specs) /\ self0 = Default) =>
        /\ self = from_iter(specs)
        /\ self = Described(AfterLastReset(specs))

C10_Witness ==
    /\ pc = "add_spec"
    /\ idx = Len(specs)
    /\ self0 = Default
    /\ specs = <<Bold, Fg(Fixed(184)), Reset, Fg(NamedColor("Red"))>>
    /\ self = MkStyle(NamedColor("Red"), None, {})

\* The terminal of C11: the flags it shows and its two colour codes.
Blank == [flags |-> {}, fg |-> <<>>, bg |-> <<>>]

\* One escape applied, `body` being the bytes between "ESC [" and "m":
\* 0 clears everything, a single digit turns that attribute on, a longer
\* body beginning with 3 sets the foreground, one beginning with 4 the
\* background.
Apply(t, body) ==
    IF body = <<"0">> THEN Blank
    ELSE IF Len(body) = 1 THEN [t EXCEPT !.flags = @ \cup {body[1]}]
    ELSE IF body[1] = "3" THEN [t EXCEPT !.fg = body]
    ELSE IF body[1] = "4" THEN [t EXCEPT !.bg = body]
    ELSE t

\* The terminal after the bytes, read escape by escape from state t.
RECURSIVE Shown(_, _)
Shown(t, bytes) ==
    IF bytes = <<>> THEN t
    ELSE LET m == CHOOSE k \in 1..Len(bytes) :
                    bytes[k] = "m" /\ \A j \in 1..(k - 1) : bytes[j] # "m"
         IN  Shown(Apply(t, SubSeq(bytes, 3, m - 1)),
                   SubSeq(bytes, m + 1, Len(bytes)))

\* C11: with colour enabled, after every write_difference of a session that
\* starts at the default style, a terminal that applied all bytes written so
\* far shows what write_to of the current style shows on a freshly reset
\* terminal: the same flags, the same foreground and background codes.
C11_TerminalShowsCurrentStyle ==
    Shown(Blank, w) = Shown(Blank, write_to(self, <<>>, TRUE, TERM, NO_COLOR).w)

====
